---- MODULE Spec2Model ----
(***************************************************************************)
(* REV-address utilities (src/src/rev-address.ts): the one-way chain       *)
(*   mnemonic -> private key -> public key -> ETH address -> REV address   *)
(* and the type-detecting parser, as a state machine whose state is the    *)
(* last call a client made and what the call produced.                     *)
(*                                                                         *)
(* Text is a sequence of one-character strings; bytes are 0..255.          *)
(* Base16 and Base58 are computed digit by digit.  The primitives of the   *)
(* external libraries (Keccak-256, Blake2b-256, secp256k1 point            *)
(* multiplication, BIP-39 checksum and seed, BIP-32 derivation) are        *)
(* deterministic stand-ins that keep each library's interface: the sizes   *)
(* and alphabets of what goes in and comes out, and where the library      *)
(* rejects or raises.                                                      *)
(***************************************************************************)
EXTENDS Integers, Sequences, FiniteSets, TLC

VARIABLES pc, op, text, phrase, result, trace, generated

vars == <<pc, op, text, phrase, result, trace, generated>>

----------------------------------------------------------------------------
(* Text helpers: JavaScript string operations used by the source.          *)

(* A function on 1..n as the explicit sequence of its values.              *)
AsSeq(f) == SubSeq(f, 1, Len(f))

Rep(c, n) == AsSeq([i \in 1..n |-> c])

HexDigits == <<"0", "1", "2", "3", "4", "5", "6", "7",
               "8", "9", "a", "b", "c", "d", "e", "f">>

UpperHex == <<"A", "B", "C", "D", "E", "F">>

(* The printable ASCII characters in the order of their codes: from " "    *)
(* (32) to "_" (95) and from "a" (97) to "~" (126).  The grave accent (96) *)
(* cannot be written in a string of the module and is outside the          *)
(* alphabet.                                                               *)
AsciiLow ==
  <<
     " ", "!", "\"", "#", "$", "%", "&", "'", "(", ")", "*", "+",
     ",", "-", ".", "/", "0", "1", "2", "3", "4", "5", "6", "7",
     "8", "9", ":", ";", "<", "=", ">", "?", "@", "A", "B", "C",
     "D", "E", "F", "G", "H", "I", "J", "K", "L", "M", "N", "O",
     "P", "Q", "R", "S", "T", "U", "V", "W", "X", "Y", "Z", "[",
     "\\", "]", "^", "_"
  >>

AsciiHigh ==
  <<
     "a", "b", "c", "d", "e", "f", "g", "h", "i", "j", "k", "l",
     "m", "n", "o", "p", "q", "r", "s", "t", "u", "v", "w", "x",
     "y", "z", "{", "|", "}", "~"
  >>

(* The other characters of the model's alphabet, with their codes: tab,    *)
(* line feed, vertical tab, form feed, carriage return, no-break space     *)
(* (U+00A0) and the byte-order mark (U+FEFF).  The remaining Unicode space *)
(* separators cannot be written in a string of the module and are outside  *)
(* the alphabet.                                                           *)
ControlCodes ==
  <<
     [c |-> "\t", code |-> 9],
     [c |-> "\n", code |-> 10],
     [c |-> "", code |-> 11],
     [c |-> "\f", code |-> 12],
     [c |-> "\r", code |-> 13],
     [c |-> " ", code |-> 160],
     [c |-> "﻿", code |-> 65279]
  >>

(* What String.prototype.trim, the regular expression \s and parseInt      *)
(* take for whitespace.                                                    *)
IsWhitespace(c) ==
    c = " " \/ \E i \in DOMAIN ControlCodes : ControlCodes[i].c = c

(* c.charCodeAt(0)                                                         *)
CharCode(c) ==
    IF \E i \in DOMAIN AsciiLow : AsciiLow[i] = c
    THEN 31 + (CHOOSE i \in DOMAIN AsciiLow : AsciiLow[i] = c)
    ELSE IF \E i \in DOMAIN AsciiHigh : AsciiHigh[i] = c
    THEN 96 + (CHOOSE i \in DOMAIN AsciiHigh : AsciiHigh[i] = c)
    ELSE ControlCodes[CHOOSE i \in DOMAIN ControlCodes : ControlCodes[i].c = c].code

Range(f) == {f[i] : i \in DOMAIN f}

IndexOf(seq, c) == CHOOSE i \in DOMAIN seq : seq[i] = c

HexValue ==
    [c \in Range(HexDigits) \cup Range(UpperHex) |->
        IF c \in Range(HexDigits) THEN IndexOf(HexDigits, c) - 1
        ELSE IndexOf(UpperHex, c) + 9]

IsHexChar(c) == c \in DOMAIN HexValue

HexVal(c) == HexValue[c]

IsHexText(s) == \A i \in 1..Len(s) : IsHexChar(s[i])

IsLowerHexText(s) == \A i \in 1..Len(s) : s[i] \in Range(HexDigits)

(* s.replace(/^0x/, ''): one leading "0x" removed, case-sensitively.       *)
Strip0x(s) ==
    IF Len(s) >= 2 /\ s[1] = "0" /\ s[2] = "x" THEN SubSeq(s, 3, Len(s)) ELSE s

(* s.trim(): from the first to the last character that is no whitespace.  *)
Trim(s) ==
    LET keep == {i \in 1..Len(s) : ~IsWhitespace(s[i])}
    IN  IF keep = {} THEN <<>>
        ELSE SubSeq(s, CHOOSE i \in keep : \A j \in keep : i <= j,
                       CHOOSE i \in keep : \A j \in keep : i >= j)

(* s.slice(0, -n) and s.slice(-n) for n > 0                                *)
SliceDropLast(s, n) == SubSeq(s, 1, Len(s) - n)

SliceLast(s, n) == IF Len(s) <= n THEN s ELSE SubSeq(s, Len(s) - n + 1, Len(s))

SliceFirst(s, n) == IF Len(s) <= n THEN s ELSE SubSeq(s, 1, n)

----------------------------------------------------------------------------
(* ./codecs: base16 and base58.                                            *)

ByteHex(b) == <<HexDigits[(b \div 16) + 1], HexDigits[(b % 16) + 1]>>

encodeBase16(bytes) ==
    AsSeq([i \in 1..(2 * Len(bytes)) |->
               ByteHex(bytes[(i + 1) \div 2])[2 - (i % 2)]])

(* parseInt(pair, 16) stored into a Uint8Array: leading whitespace and a   *)
(* sign are skipped, the longest hex prefix is read, NaN is stored as 0    *)
(* and a negative number modulo 256.                                       *)
ParseInt16(a, b) ==
    IF IsWhitespace(a) \/ a = "+" THEN (IF IsHexChar(b) THEN HexVal(b) ELSE 0)
    ELSE IF a = "-"
    THEN (IF IsHexChar(b) THEN (256 - HexVal(b)) % 256 ELSE 0)
    ELSE IF ~IsHexChar(a) THEN 0
    ELSE IF ~IsHexChar(b) THEN HexVal(a)
    ELSE 16 * HexVal(a) + HexVal(b)

decodeBase16(hexStr) ==
    LET s == Strip0x(hexStr)
    IN  AsSeq([i \in 1..(Len(s) \div 2) |-> ParseInt16(s[2 * i - 1], s[2 * i])])

B58Alphabet ==
  <<
     "1", "2", "3", "4", "5", "6", "7", "8", "9", "A", "B", "C", "D", "E", "F", "G",
     "H", "J", "K", "L", "M", "N", "P", "Q", "R", "S", "T", "U", "V", "W", "X", "Y",
     "Z", "a", "b", "c", "d", "e", "f", "g", "h", "i", "j", "k", "m", "n", "o", "p",
     "q", "r", "s", "t", "u", "v", "w", "x", "y", "z"
  >>

B58Base == Len(B58Alphabet)

ByteBase == Len(HexDigits) * Len(HexDigits)

B58Value == [c \in Range(B58Alphabet) |-> IndexOf(B58Alphabet, c) - 1]

IsB58Char(c) == c \in DOMAIN B58Value

B58Val(c) == B58Value[c]

(* How many copies of x the sequence starts with.                         *)
CountLeading(s, x) ==
    IF \A i \in 1..Len(s) : s[i] = x THEN Len(s)
    ELSE (CHOOSE i \in 1..Len(s) : s[i] # x /\ \A j \in 1..(i - 1) : s[j] = x) - 1

StripZeros(digits) == SubSeq(digits, CountLeading(digits, 0) + 1, Len(digits))

(* Long division of digits lo..hi (most significant first, base `from`)  *)
(* by `to`, given the remainder carried in: the quotient's digits and the  *)
(* remainder carried out.  The range is halved so that the evaluation      *)
(* stays shallow; the left half's remainder feeds the right half.          *)
RECURSIVE DivMod(_, _, _, _, _, _)
DivMod(digits, from, to, lo, hi, rem) ==
    IF lo = hi
    THEN LET cur == rem * from + digits[lo]
         IN  [q |-> <<cur \div to>>, r |-> cur % to]
    ELSE LET mid   == (lo + hi) \div 2
             left  == DivMod(digits, from, to, lo, mid, rem)
             right == DivMod(digits, from, to, mid + 1, hi, left.r)
         IN  [q |-> left.q \o right.q, r |-> right.r]

(* At most n rounds of division by `to`: each round moves the remainder    *)
(* in front of the digits already produced, until the number is used up.   *)
RECURSIVE DivRounds(_, _, _, _)
DivRounds(st, from, to, n) ==
    IF n = 0 \/ st.num = <<>> THEN st
    ELSE IF n = 1
    THEN LET qr == DivMod(st.num, from, to, 1, Len(st.num), 0)
         IN  [num |-> StripZeros(qr.q), out |-> <<qr.r>> \o st.out]
    ELSE LET half == DivRounds(st, from, to, n \div 2)
         IN  IF half.num = <<>> THEN half
             ELSE DivRounds(half, from, to, n - (n \div 2))

(* The number written by `digits` in base `from`, rewritten in base `to`   *)
(* without leading zeros (two output digits per input digit suffice for    *)
(* the bases used here).                                                   *)
ConvertBase(digits, from, to) ==
    DivRounds([num |-> StripZeros(digits), out |-> <<>>], from, to,
              2 * Len(digits)).out

(* bs58: one "1" per leading zero byte, then the number in base 58.        *)
Base58Encode(bytes) ==
    LET zeros  == CountLeading(bytes, 0)
        digits == ConvertBase(bytes, ByteBase, B58Base)
    IN  Rep("1", zeros)
        \o AsSeq([i \in 1..Len(digits) |-> B58Alphabet[digits[i] + 1]])

Base58Decode(str) ==
    LET vals  == AsSeq([i \in 1..Len(str) |-> B58Val(str[i])])
        zeros == CountLeading(str, "1")
    IN  Rep(0, zeros) \o ConvertBase(vals, B58Base, ByteBase)

(* encodeBase58 takes the hex text the callers hand it.                    *)
encodeBase58(hexStr) == Base58Encode(decodeBase16(hexStr))

Undefined == [kind |-> "undefined"]

Value(v) == [kind |-> "value", value |-> v]

Raised(msg) == [kind |-> "raised", message |-> msg]

(* decodeBase58safe: the bytes, or undefined where bs58 raises.            *)
decodeBase58safe(str) ==
    IF \A i \in 1..Len(str) : IsB58Char(str[i])
    THEN Value(Base58Decode(str))
    ELSE Undefined

----------------------------------------------------------------------------
(* Library stand-ins.  Each is a deterministic function with the           *)
(* library's interface; none is the identity.                              *)

DigestLen == 32

(* A polynomial hash of nums[lo..hi] modulo 32749, with the power of the  *)
(* multiplier for the length of the range.                                 *)
RECURSIVE Poly(_, _, _)
Poly(nums, lo, hi) ==
    IF lo > hi THEN [v |-> 0, w |-> 1]
    ELSE IF lo = hi THEN [v |-> (nums[lo] + 1) % 32749, w |-> 131]
    ELSE LET mid   == (lo + hi) \div 2
             left  == Poly(nums, lo, mid)
             right == Poly(nums, mid + 1, hi)
         IN  [v |-> (left.v * right.w + right.v) % 32749,
              w |-> (left.w * right.w) % 32749]

Fold(nums, seed) ==
    LET h == Poly(nums, 1, Len(nums))
    IN  (seed * h.w + h.v) % 32749

DigestBytes(nums, seed) ==
    LET h == Fold(nums, seed)
    IN  AsSeq([i \in 1..DigestLen |-> ((h + i) * (29 * i + 7) + seed) % ByteBase])

(* js-sha3 keccak256(bytes): 32-byte digest as 64 lowercase hex chars.     *)
keccak256(bytes) == encodeBase16(DigestBytes(bytes, 17))

(* blakejs blake2bHex(bytes, void, 32): 32-byte digest as lowercase hex.   *)
blake2bHex(bytes) == encodeBase16(DigestBytes(bytes, 91))

(* bn.js parseHex: a hex digit's value, else (code - 48) & 0xf; no error.  *)
BNDigit(c) == IF IsHexChar(c) THEN HexVal(c) ELSE (CharCode(c) - 48) % 16

(* number.replace(/\s+/g, '')                                               *)
SelectNonSpace(s) == SelectSeq(s, LAMBDA c : ~IsWhitespace(c))

(* new BN(key, 16): a leading "-" makes the number negative.               *)
BNNegative(key) ==
    LET s == SelectNonSpace(key)
    IN  s # <<>> /\ s[1] = "-"

(* new BN(key, 16): whitespace removed and the sign skipped, then the      *)
(* digits of the magnitude, most significant first, without leading zeros. *)
BNParse(key) ==
    LET s == SelectNonSpace(key)
        d == IF s # <<>> /\ s[1] = "-" THEN Tail(s) ELSE s
    IN  StripZeros(AsSeq([i \in 1..Len(d) |-> BNDigit(d[i])]))

(* The order n of the secp256k1 group, as 64 hex digits.                   *)
CurveOrderText ==
  <<
     "F", "F", "F", "F", "F", "F", "F", "F", "F", "F", "F", "F", "F", "F", "F", "F",
     "F", "F", "F", "F", "F", "F", "F", "F", "F", "F", "F", "F", "F", "F", "F", "E",
     "B", "A", "A", "E", "D", "C", "E", "6", "A", "F", "4", "8", "A", "0", "3", "B",
     "B", "F", "D", "2", "5", "E", "8", "C", "D", "0", "3", "6", "4", "1", "4", "1"
  >>

CurveOrder == AsSeq([i \in 1..Len(CurveOrderText) |-> HexVal(CurveOrderText[i])])

PadTo(digits, n) == Rep(0, n - Len(digits)) \o digits

(* a >= b for digit sequences of one length                                *)
DigitsGeq(a, b) ==
    \/ a = b
    \/ \E i \in 1..Len(a) : a[i] > b[i] /\ \A j \in 1..(i - 1) : a[j] = b[j]

(* a - b for hex digit sequences of one length, a >= b: digit i borrows   *)
(* exactly when the digits after it write a smaller number in a than in b. *)
DigitsSub(a, b) ==
    LET n == Len(a)
        borrow(i) ==
            IF \E k \in (i + 1)..n :
                   a[k] < b[k] /\ \A j \in (i + 1)..(k - 1) : a[j] = b[j]
            THEN 1 ELSE 0
    IN  AsSeq([i \in 1..n |-> (a[i] - b[i] - borrow(i)) % 16])

(* The magnitude modulo n, for at most 64 hex digits (below 2n).           *)
ModOrder(digits) ==
    IF DigitsGeq(PadTo(digits, Len(CurveOrder)), CurveOrder)
    THEN StripZeros(DigitsSub(PadTo(digits, Len(CurveOrder)), CurveOrder))
    ELSE digits

(* n - r for 0 < r < n, and 0 for r = 0: the residue of a negative number. *)
NegateModOrder(r) ==
    IF r = <<>> THEN r
    ELSE StripZeros(DigitsSub(CurveOrder, PadTo(r, Len(CurveOrder))))

(* priv.umod(n): the non-negative residue, whatever the sign.              *)
UmodOrder(digits, negative) ==
    IF negative THEN NegateModOrder(ModOrder(digits)) ELSE ModOrder(digits)

(* secp256k1.keyFromPrivate(privateKey): the scalar reduced modulo n.      *)
keyFromPrivate(privateKey) ==
    UmodOrder(BNParse(privateKey), BNNegative(privateKey))

(* key.getPublic('hex'): 04 || X || Y in lowercase hex; for the scalar 0   *)
(* the point is the point at infinity, whose encoding raises a TypeError.  *)
getPublic(key) ==
    IF key = <<>> THEN Raised("TypeError")
    ELSE Value(<<"0", "4">> \o encodeBase16(DigestBytes(key, 5))
                            \o encodeBase16(DigestBytes(key, 11)))

WordBits == 11

WordlistSize == 2 ^ WordBits

InWordlist(w) == w \in 0..(WordlistSize - 1)

(* BIP-39: a phrase of n words carries n \div 3 checksum bits in the low   *)
(* bits of its last word; the rest is entropy.                             *)
ChecksumBits(n) == n \div 3

EntropyOf(words) ==
    LET n == Len(words)
    IN  SubSeq(words, 1, n - 1) \o <<words[n] \div (2 ^ ChecksumBits(n))>>

Bip39Checksum(entropy) == Fold(entropy, 3) % (2 ^ ChecksumBits(Len(entropy)))

entropyToMnemonic(entropy) ==
    LET n == Len(entropy)
    IN  SubSeq(entropy, 1, n - 1)
        \o <<entropy[n] * (2 ^ ChecksumBits(n)) + Bip39Checksum(entropy)>>

(* bip39.validateMnemonic: 12, 15, 18, 21 or 24 wordlist words whose       *)
(* checksum bits match.                                                    *)
validateMnemonic(words) ==
    LET n == Len(words)
    IN  /\ n % 3 = 0
        /\ n >= 12
        /\ n <= 24
        /\ \A i \in 1..n : InWordlist(words[i])
        /\ words[n] % (2 ^ ChecksumBits(n)) = Bip39Checksum(EntropyOf(words))

----------------------------------------------------------------------------
(* src/src/rev-address.ts                                                  *)

EthAddrLen == 40

PubKeyLen == 130

PrivKeyLen == 64

ChecksumLen == 8

(* prefix.coinId and prefix.version                                        *)
coinId == <<"0", "0", "0", "0", "0", "0">>

version == <<"0", "0">>

IsValue(r) == r.kind = "value"

IsRaised(r) == r.kind = "raised"

(* { ...over } spread over { base }: the keys of `over` win.               *)
Spread(base, over) == over @@ base

(* const name = v; rest -- the value is computed once and named in rest.   *)
With(v, rest(_)) == rest(v)

(* getAddrFromEth with the checksum taken from the wrong end of the hash.  *)
getAddrFromEthTailChecksum(ethAddrRaw) ==
    LET ethAddr == Strip0x(ethAddrRaw)
    IN  IF ethAddr = <<>> \/ Len(ethAddr) # EthAddrLen THEN Undefined
        ELSE With(coinId \o version \o keccak256(decodeBase16(ethAddr)),
                  LAMBDA payload :
             Value(encodeBase58(
                 payload \o SliceLast(blake2bHex(decodeBase16(payload)),
                                      ChecksumLen))))

(* ETH address -> REV address, or undefined on a wrong length.             *)
getAddrFromEth(ethAddrRaw) ==
    LET ethAddr == Strip0x(ethAddrRaw)
    IN  IF ethAddr = <<>> \/ Len(ethAddr) # EthAddrLen THEN Undefined
        ELSE With(keccak256(decodeBase16(ethAddr)), LAMBDA ethHash :
             With(coinId \o version \o ethHash, LAMBDA payload :
             With(SliceFirst(blake2bHex(decodeBase16(payload)), ChecksumLen),
                  LAMBDA checksum :
             Value(encodeBase58(payload \o checksum)))))

(* Public key -> { revAddr, ethAddr }, or undefined on a wrong length.     *)
getAddrFromPublicKey(publicKeyRaw) ==
    LET publicKey == Strip0x(publicKeyRaw)
    IN  IF publicKey = <<>> \/ Len(publicKey) # PubKeyLen THEN Undefined
        ELSE With(keccak256(Tail(decodeBase16(publicKey))), LAMBDA pkHash :
             With(SliceLast(pkHash, EthAddrLen), LAMBDA ethAddr :
             With(getAddrFromEth(ethAddr), LAMBDA revAddr :
             IF IsValue(revAddr)
             THEN Value([revAddr |-> revAddr.value, ethAddr |-> ethAddr])
             ELSE Undefined)))

(* Private key -> { pubKey, revAddr, ethAddr }, or undefined on a wrong    *)
(* length; what getPublic raises is not caught.                            *)
getAddrFromPrivateKey(privateKeyRaw) ==
    LET privateKey == Strip0x(privateKeyRaw)
    IN  IF privateKey = <<>> \/ Len(privateKey) # PrivKeyLen THEN Undefined
        ELSE With(keyFromPrivate(privateKey), LAMBDA key :
             With(getPublic(key), LAMBDA pubKey :
             IF IsRaised(pubKey) THEN pubKey
             ELSE With(getAddrFromPublicKey(pubKey.value), LAMBDA addr :
                  IF IsValue(addr)
                  THEN Value(Spread([pubKey |-> pubKey.value], addr.value))
                  ELSE Undefined)))

(* verifyRevAddr comparing all of the checksum but its last byte.          *)
verifyRevAddrShort(revAddr) ==
    With(decodeBase58safe(revAddr), LAMBDA revBytes :
    IF ~IsValue(revBytes) THEN FALSE
    ELSE With(encodeBase16(revBytes.value), LAMBDA revHex :
         SliceFirst(SliceLast(revHex, ChecksumLen), ChecksumLen - 2)
         = SliceFirst(blake2bHex(decodeBase16(SliceDropLast(revHex, ChecksumLen))),
                      ChecksumLen - 2)))

(* Checksum validation of a REV address.                                   *)
verifyRevAddr(revAddr) ==
    With(decodeBase58safe(revAddr), LAMBDA revBytes :
    IF ~IsValue(revBytes) THEN FALSE
    ELSE With(encodeBase16(revBytes.value), LAMBDA revHex :
         With(SliceDropLast(revHex, ChecksumLen), LAMBDA payload :
         With(SliceLast(revHex, ChecksumLen), LAMBDA checksum :
         With(SliceFirst(blake2bHex(decodeBase16(payload)), ChecksumLen),
              LAMBDA checksumRef :
         checksum = checksumRef)))))

(* privKeyFromMnemonic losing the first byte of the key.                   *)
privKeyFromMnemonicShort(mnemonic) ==
    Value(encodeBase16(Tail(DigestBytes(mnemonic, 23))))

(* mnemonic -> seed -> BIP-32 root -> m/44'/60'/0'/0/0 -> private key hex. *)
(* A node derived from a master seed always holds a private key, in        *)
(* 1..n-1, so the guard of the source never raises.                        *)
privKeyFromMnemonic(mnemonic) ==
    With(DigestBytes(mnemonic, 23), LAMBDA seed :
    With([privateKey |-> <<1 + (seed[1] % 127)>> \o Tail(seed)], LAMBDA child :
    IF child.privateKey = <<>>
    THEN Raised("Unable to derive private key (HD node neutered?)")
    ELSE Value(encodeBase16(child.privateKey))))

(* newRevAddress, for the entropy bip39.generateMnemonic() drew: the      *)
(* record { mnemonic, privKey, ...addr } and the calls made to build it.   *)
newRevAddress(entropy) ==
    With(entropyToMnemonic(entropy), LAMBDA mnemonic :
    With(privKeyFromMnemonic(mnemonic), LAMBDA privKey :
    IF IsRaised(privKey)
    THEN [result |-> privKey,
          trace  |-> <<"generateMnemonic", "privKeyFromMnemonic">>]
    ELSE With(getAddrFromPrivateKey(privKey.value), LAMBDA addr :
         [trace  |-> <<"generateMnemonic", "privKeyFromMnemonic",
                       "getAddrFromPrivateKey">>,
          result |-> IF IsRaised(addr) THEN addr
                     ELSE IF IsValue(addr)
                     THEN Value(Spread([mnemonic |-> mnemonic,
                                        privKey  |-> privKey.value], addr.value))
                     ELSE Value([mnemonic |-> mnemonic,
                                 privKey  |-> privKey.value])])))

(* revAddressFromMnemonic returning the keys without the address chain.    *)
revAddressFromMnemonicKeysOnly(mnemonic) ==
    IF ~validateMnemonic(mnemonic)
    THEN [result |-> Raised("Invalid BIP-39 mnemonic"),
          trace  |-> <<"validateMnemonic">>]
    ELSE With(privKeyFromMnemonic(mnemonic), LAMBDA privKey :
         [trace  |-> <<"validateMnemonic", "privKeyFromMnemonic">>,
          result |-> IF IsRaised(privKey) THEN privKey
                     ELSE Value([mnemonic |-> mnemonic,
                                 privKey  |-> privKey.value])])

(* revAddressFromMnemonic: raises on a phrase validateMnemonic refuses,    *)
(* else derives as newRevAddress does.                                     *)
revAddressFromMnemonic(mnemonic) ==
    IF ~validateMnemonic(mnemonic)
    THEN [result |-> Raised("Invalid BIP-39 mnemonic"),
          trace  |-> <<"validateMnemonic">>]
    ELSE
    With(privKeyFromMnemonic(mnemonic), LAMBDA privKey :
    IF IsRaised(privKey)
    THEN [result |-> privKey,
          trace  |-> <<"validateMnemonic", "privKeyFromMnemonic">>]
    ELSE With(getAddrFromPrivateKey(privKey.value), LAMBDA addr :
         [trace  |-> <<"validateMnemonic", "privKeyFromMnemonic",
                       "getAddrFromPrivateKey">>,
          result |-> IF IsRaised(addr) THEN addr
                     ELSE IF IsValue(addr)
                     THEN Value(Spread([mnemonic |-> mnemonic,
                                        privKey  |-> privKey.value], addr.value))
                     ELSE Value([mnemonic |-> mnemonic,
                                 privKey  |-> privKey.value])]))

(* parseRevAddress stopping at the first interpretation that succeeds.     *)
parseRevAddressLazy(input) ==
    With(Trim(Strip0x(input)), LAMBDA val :
    IF verifyRevAddr(val)
    THEN [result |-> Value([revAddr |-> input]), trace |-> <<"verifyRevAddr">>]
    ELSE With(getAddrFromPrivateKey(val), LAMBDA fromPriv :
         IF IsRaised(fromPriv) \/ IsValue(fromPriv)
         THEN [trace  |-> <<"verifyRevAddr", "getAddrFromPrivateKey">>,
               result |-> IF IsRaised(fromPriv) THEN fromPriv
                          ELSE Value(Spread([privKey |-> val], fromPriv.value))]
         ELSE With(getAddrFromPublicKey(val), LAMBDA fromPub :
              With(getAddrFromEth(val), LAMBDA fromEth :
              [trace  |-> <<"verifyRevAddr", "getAddrFromPrivateKey",
                            "getAddrFromPublicKey", "getAddrFromEth">>,
               result |-> IF IsValue(fromPub)
                          THEN Value(Spread([pubKey |-> val], fromPub.value))
                          ELSE IF IsValue(fromEth)
                          THEN Value([ethAddr |-> val, revAddr |-> fromEth.value])
                          ELSE Undefined]))))

(* parseRevAddress: the four attempts in the order the source makes them,  *)
(* then the choice among their results.                                    *)
parseRevAddress(input) ==
    With(Trim(Strip0x(input)), LAMBDA val :
    With(getAddrFromPrivateKey(val), LAMBDA fromPriv :
    IF IsRaised(fromPriv)
    THEN [result |-> fromPriv, trace |-> <<"getAddrFromPrivateKey">>]
    ELSE With(getAddrFromPublicKey(val), LAMBDA fromPub :
         With(getAddrFromEth(val), LAMBDA fromEth :
         With(verifyRevAddr(val), LAMBDA isRev :
         [trace  |-> <<"getAddrFromPrivateKey", "getAddrFromPublicKey",
                       "getAddrFromEth", "verifyRevAddr">>,
          result |->
            IF isRev THEN Value([revAddr |-> input])
            ELSE IF IsValue(fromPriv)
            THEN Value(Spread([privKey |-> val], fromPriv.value))
            ELSE IF IsValue(fromPub)
            THEN Value(Spread([pubKey |-> val], fromPub.value))
            ELSE IF IsValue(fromEth)
            THEN Value([ethAddr |-> val, revAddr |-> fromEth.value])
            ELSE Undefined])))))

----------------------------------------------------------------------------
(* The calls a client can make.                                            *)

MaxPad == 1

MaxWord == 1

MaxTail == 1

MaxFlip == 1

NearLengths ==
    UNION {{n - 1, n, n + 1} : n \in {EthAddrLen, PrivKeyLen, PubKeyLen}}

ExactLengths == {EthAddrLen, PrivKeyLen, PubKeyLen}

(* Hex text of every length next to a required one; zero, uppercase and    *)
(* non-hex text of the required lengths, with letters, punctuation, a      *)
(* sign or whitespace inside; mixed case; the group order.                 *)
HexBodies ==
    {Rep("a", n) : n \in NearLengths}
    \cup {Rep(c, n) : c \in {"0", "A", "z"}, n \in ExactLengths}
    \cup {<<"A", "b">> \o Rep("1", n - 2) : n \in ExactLengths}
    \cup {Rep("a", n - 1) \o <<"g">> : n \in ExactLengths}
    \cup {Rep("_", n) : n \in ExactLengths}
    \cup {<<"-">> \o Rep("a", n - 1) : n \in ExactLengths}
    \cup {Rep("a", 31) \o <<"\t">> \o Rep("a", 32)}
    \cup {CurveOrderText}

SampleEth == {Rep("0", EthAddrLen), Rep("a", EthAddrLen)}

(* Addresses the chain itself builds, and the 4-byte address that is       *)
(* nothing but the checksum of the empty payload.                          *)
GoodAddresses ==
    {getAddrFromEth(e).value : e \in SampleEth}
    \cup {encodeBase58(SliceFirst(blake2bHex(<<>>), ChecksumLen))}

(* addr with hex digit i of its decoded checksum replaced by another.      *)
Tamper(addr, i, delta) ==
    LET hex == encodeBase16(Base58Decode(addr))
        at  == Len(hex) - ChecksumLen + i
    IN  encodeBase58([hex EXCEPT ![at] = HexDigits[((HexVal(@) + delta) % 16) + 1]])

TamperedAddresses ==
    {Tamper(a, i, d) : a \in GoodAddresses, i \in 1..ChecksumLen, d \in 1..MaxFlip}

BadBase58 == {<<>>, <<"0", "O", "I", "l">>, <<"1", "1">>, <<"2", "g">>}

(* Whitespace of up to MaxPad characters of one kind.                      *)
Pads == {Rep(c, n) : c \in {" ", "\t", "\n"}, n \in 0..MaxPad}

(* t, "0x" + t, and either inside leading and trailing whitespace.         *)
Wrappings(t) ==
    {l \o p \o t \o r : l \in Pads, r \in Pads, p \in {<<>>, <<"0", "x">>}}

CoreBodies ==
    {Rep(c, n) : c \in {"a", "A", "0"}, n \in ExactLengths} \cup GoodAddresses

Texts ==
    HexBodies \cup GoodAddresses \cup TamperedAddresses \cup BadBase58
    \cup UNION {Wrappings(t) : t \in CoreBodies}

(* What generateMnemonic can draw: 11 words and the 7 free bits of the     *)
(* twelfth.                                                                *)
Entropies ==
    {Rep(w, 11) \o <<e>> : w \in 0..MaxWord, e \in 0..MaxTail}

FooBarBaz == <<WordlistSize, WordlistSize + 1, WordlistSize + 2>>

Phrases ==
    {entropyToMnemonic(Rep(w, n - 1) \o <<e>>) :
        w \in 0..MaxWord, e \in 0..MaxTail, n \in {12, 15, 24}}
    \cup {Rep(w, n) : w \in 0..MaxWord, n \in {11, 12, 13}}
    \cup {Rep(WordlistSize, 12), FooBarBaz, <<>>}

NoWallet == [kind |-> "none"]

Init ==
    /\ pc = "idle"
    /\ op = "none"
    /\ text = <<>>
    /\ phrase = <<>>
    /\ result = Undefined
    /\ trace = <<>>
    /\ generated = NoWallet

GetAddrFromEth ==
    \E t \in Texts :
        /\ pc = "idle"
        /\ pc' = "done"
        /\ op' = "getAddrFromEth"
        /\ text' = t
        /\ result' = getAddrFromEth(t)
        /\ trace' = <<"getAddrFromEth">>
        /\ UNCHANGED <<phrase, generated>>

GetAddrFromPublicKey ==
    \E t \in Texts :
        /\ pc = "idle"
        /\ pc' = "done"
        /\ op' = "getAddrFromPublicKey"
        /\ text' = t
        /\ result' = getAddrFromPublicKey(t)
        /\ trace' = <<"getAddrFromPublicKey">>
        /\ UNCHANGED <<phrase, generated>>

GetAddrFromPrivateKey ==
    \E t \in Texts :
        /\ pc = "idle"
        /\ pc' = "done"
        /\ op' = "getAddrFromPrivateKey"
        /\ text' = t
        /\ result' = getAddrFromPrivateKey(t)
        /\ trace' = <<"getAddrFromPrivateKey">>
        /\ UNCHANGED <<phrase, generated>>

VerifyRevAddr ==
    \E t \in Texts :
        /\ pc = "idle"
        /\ pc' = "done"
        /\ op' = "verifyRevAddr"
        /\ text' = t
        /\ result' = Value(verifyRevAddr(t))
        /\ trace' = <<"verifyRevAddr">>
        /\ UNCHANGED <<phrase, generated>>

ParseRevAddress ==
    \E t \in Texts :
        LET r == parseRevAddress(t)
        IN  /\ pc = "idle"
            /\ pc' = "done"
            /\ op' = "parseRevAddress"
            /\ text' = t
            /\ result' = r.result
            /\ trace' = r.trace
            /\ UNCHANGED <<phrase, generated>>

NewRevAddress ==
    \E e \in Entropies :
        LET r == newRevAddress(e)
        IN  /\ pc = "idle"
            /\ pc' = "done"
            /\ op' = "newRevAddress"
            /\ result' = r.result
            /\ trace' = r.trace
            /\ UNCHANGED <<text, phrase, generated>>

RevAddressFromMnemonic ==
    \E p \in Phrases :
        LET r == revAddressFromMnemonic(p)
        IN  /\ pc = "idle"
            /\ pc' = "done"
            /\ op' = "revAddressFromMnemonic"
            /\ phrase' = p
            /\ result' = r.result
            /\ trace' = r.trace
            /\ UNCHANGED <<text, generated>>

(* The client that keeps the wallet newRevAddress returned and restores    *)
(* from its mnemonic (test/rev-address.test.ts, second test).              *)
RestoreGenerated ==
    /\ pc = "done"
    /\ op = "newRevAddress"
    /\ IsValue(result)
    /\ LET r == revAddressFromMnemonic(result.value.mnemonic)
       IN  /\ op' = "revAddressFromMnemonic"
           /\ phrase' = result.value.mnemonic
           /\ generated' = Value(result.value)
           /\ result' = r.result
           /\ trace' = r.trace
    /\ UNCHANGED <<pc, text>>

Return ==
    /\ pc = "done"
    /\ pc' = "idle"
    /\ op' = "none"
    /\ text' = <<>>
    /\ phrase' = <<>>
    /\ result' = Undefined
    /\ trace' = <<>>
    /\ generated' = NoWallet

Next ==
    \/ GetAddrFromEth
    \/ GetAddrFromPublicKey
    \/ GetAddrFromPrivateKey
    \/ VerifyRevAddr
    \/ ParseRevAddress
    \/ NewRevAddress
    \/ RevAddressFromMnemonic
    \/ RestoreGenerated
    \/ Return

Spec == Init /\ [][Next]_vars

----------------------------------------------------------------------------
(* Vocabulary of the properties.                                           *)

Done(o) == pc = "done" /\ op = o

WalletFields == {"mnemonic", "privKey", "pubKey", "ethAddr", "revAddr"}

HexFields == {"privKey", "pubKey", "ethAddr"}

RecordOps ==
    {"getAddrFromPublicKey", "getAddrFromPrivateKey", "newRevAddress",
     "revAddressFromMnemonic", "parseRevAddress"}

LengthOps == {"getAddrFromEth", "getAddrFromPublicKey", "getAddrFromPrivateKey"}

RequiredLen(o) ==
    IF o = "getAddrFromEth" THEN EthAddrLen
    ELSE IF o = "getAddrFromPublicKey" THEN PubKeyLen
    ELSE PrivKeyLen

(* t, after one optional leading 0x, is exactly n hex characters.          *)
ExactHex(t, n) == Len(Strip0x(t)) = n /\ IsHexText(Strip0x(t))

(* A private key of the curve: 64 hex characters writing a scalar in       *)
(* 1..n-1.                                                                 *)
ValidPrivateKey(t) ==
    /\ ExactHex(t, PrivKeyLen)
    /\ LET scalar == AsSeq([i \in 1..PrivKeyLen |-> HexVal(Strip0x(t)[i])])
       IN  scalar # Rep(0, PrivKeyLen) /\ ~DigitsGeq(scalar, CurveOrder)

(* The last 4 bytes are the first 4 bytes of the Blake2b digest of the     *)
(* bytes before them.                                                      *)
ByteChecksumOk(bytes) ==
    /\ Len(bytes) >= ChecksumLen \div 2
    /\ SubSeq(bytes, Len(bytes) - (ChecksumLen \div 2) + 1, Len(bytes))
       = SubSeq(DigestBytes(SubSeq(bytes, 1, Len(bytes) - (ChecksumLen \div 2)), 91),
                1, ChecksumLen \div 2)

(* f is a field of rec holding the same value as in other.                 *)
SameFields(rec, other) ==
    \A f \in DOMAIN other : f \in DOMAIN rec /\ rec[f] = other[f]

StartsWith0x(t) == Len(t) >= 2 /\ t[1] = "0" /\ t[2] = "x"

----------------------------------------------------------------------------
(* C1: parseRevAddress returns the first interpretation that succeeded in  *)
(* the order address > private key > public key > network address, tagged  *)
(* with the origin field, and none exactly when all four fail.             *)
C1_ParsePrecedence ==
    Done("parseRevAddress") =>
        LET val      == Trim(Strip0x(text))
            fromPriv == getAddrFromPrivateKey(val)
            fromPub  == getAddrFromPublicKey(val)
            fromEth  == getAddrFromEth(val)
        IN  IF verifyRevAddr(val)
            THEN IsValue(result) /\ DOMAIN result.value = {"revAddr"}
            ELSE IF IsValue(fromPriv)
            THEN /\ IsValue(result)
                 /\ "privKey" \in DOMAIN result.value
                 /\ SameFields(result.value, fromPriv.value)
            ELSE IF IsValue(fromPub)
            THEN /\ IsValue(result)
                 /\ "pubKey" \in DOMAIN result.value
                 /\ "privKey" \notin DOMAIN result.value
                 /\ SameFields(result.value, fromPub.value)
            ELSE IF IsValue(fromEth)
            THEN /\ IsValue(result)
                 /\ DOMAIN result.value = {"ethAddr", "revAddr"}
                 /\ result.value.revAddr = fromEth.value
            ELSE result = Undefined

(* C2: for every valid private key, with or without 0x,                    *)
(* getAddrFromPrivateKey returns a record whose address verifyRevAddr      *)
(* accepts; and every address getAddrFromEth builds passes verifyRevAddr.  *)
C2_ValidKeyGivesVerifiedAddress ==
    /\ (Done("getAddrFromPrivateKey") /\ ValidPrivateKey(text)) =>
           /\ IsValue(result)
           /\ verifyRevAddr(result.value.revAddr)
    /\ (Done("getAddrFromEth") /\ IsValue(result)) => verifyRevAddr(result.value)

C2_PrefixedKeyAccepted ==
    /\ Done("getAddrFromPrivateKey")
    /\ ValidPrivateKey(text)
    /\ StartsWith0x(text)
    /\ IsValue(result)
    /\ DOMAIN result.value = {"pubKey", "ethAddr", "revAddr"}

(* C3: verifyRevAddr never raises; it is false when base58 decoding fails, *)
(* otherwise true exactly when the last 4 decoded bytes are the first 4    *)
(* bytes of Blake2b over the bytes before them; an address with one hex    *)
(* character of its checksum changed is refused.                           *)
C3_VerifyIsChecksumTest ==
    Done("verifyRevAddr") =>
        /\ IsValue(result)
        /\ result.value \in BOOLEAN
        /\ ~IsValue(decodeBase58safe(text)) => result.value = FALSE
        /\ IsValue(decodeBase58safe(text)) =>
               (result.value <=> ByteChecksumOk(decodeBase58safe(text).value))
        /\ text \in TamperedAddresses => result.value = FALSE

C3_TamperedAddressRefused ==
    /\ Done("verifyRevAddr")
    /\ text \in TamperedAddresses
    /\ IsValue(decodeBase58safe(text))
    /\ result = Value(FALSE)

(* C4: getAddrFromEth, getAddrFromPublicKey and getAddrFromPrivateKey      *)
(* return none, without raising, unless the input after one optional 0x    *)
(* is exactly 40, 130 and 64 hex characters.                               *)
C4_NoneUnlessExactHex ==
    (pc = "done" /\ op \in LengthOps /\ ~ExactHex(text, RequiredLen(op)))
        => result = Undefined

(* C5: revAddressFromMnemonic on a phrase that fails BIP-39 validation     *)
(* raises "Invalid BIP-39 mnemonic" before any derivation and returns no   *)
(* record; no other public operation raises.                               *)
C5_OnlyRestoreRaises ==
    /\ (Done("revAddressFromMnemonic") /\ ~validateMnemonic(phrase)) =>
           /\ result = Raised("Invalid BIP-39 mnemonic")
           /\ trace = <<"validateMnemonic">>
    /\ (pc = "done" /\ IsRaised(result)) =>
           /\ op = "revAddressFromMnemonic"
           /\ ~validateMnemonic(phrase)

(* C6: restoring from the mnemonic of a wallet newRevAddress returned      *)
(* succeeds and gives a record equal to that wallet in every field.        *)
C6_RestoreEqualsGenerated ==
    (pc = "done" /\ generated # NoWallet) =>
        /\ op = "revAddressFromMnemonic"
        /\ IsValue(result)
        /\ \A f \in WalletFields :
               /\ f \in DOMAIN generated.value
               /\ f \in DOMAIN result.value
               /\ result.value[f] = generated.value[f]
        /\ result.value = generated.value

C6_WalletRestored ==
    /\ pc = "done"
    /\ generated # NoWallet
    /\ phrase = generated.value.mnemonic
    /\ IsValue(result)
    /\ DOMAIN result.value = WalletFields

(* C7, as the code has it: every record newRevAddress or                   *)
(* revAddressFromMnemonic returns holds all five fields, a 64-hex privKey, *)
(* a 130-hex pubKey, a 40-hex ethAddr and an address verifyRevAddr         *)
(* accepts; its mnemonic has 12 words from newRevAddress and is the valid  *)
(* phrase given, of 12, 15, 18, 21 or 24 words, from                       *)
(* revAddressFromMnemonic.                                                 *)
C7_CompleteWallet ==
    (pc = "done" /\ op \in {"newRevAddress", "revAddressFromMnemonic"}
                 /\ IsValue(result)) =>
        /\ DOMAIN result.value = WalletFields
        /\ Len(result.value.privKey) = PrivKeyLen
        /\ IsHexText(result.value.privKey)
        /\ Len(result.value.pubKey) = PubKeyLen
        /\ IsHexText(result.value.pubKey)
        /\ Len(result.value.ethAddr) = EthAddrLen
        /\ IsHexText(result.value.ethAddr)
        /\ verifyRevAddr(result.value.revAddr)
        /\ Len(result.value.mnemonic) \in {12, 15, 18, 21, 24}
        /\ op = "newRevAddress" => Len(result.value.mnemonic) = 12
        /\ op = "revAddressFromMnemonic" => result.value.mnemonic = phrase

C7_LongPhraseRestored ==
    /\ Done("revAddressFromMnemonic")
    /\ IsValue(result)
    /\ generated = NoWallet
    /\ Len(result.value.mnemonic) = 24
    /\ DOMAIN result.value = WalletFields

(* C7, as the specification has it: the mnemonic of every such record has  *)
(* 12 words.                                                               *)
C7_TwelveWordWallet ==
    (pc = "done" /\ op \in {"newRevAddress", "revAddressFromMnemonic"}
                 /\ IsValue(result)) =>
        /\ DOMAIN result.value = WalletFields
        /\ Len(result.value.mnemonic) = 12
        /\ Len(result.value.privKey) = PrivKeyLen
        /\ IsHexText(result.value.privKey)
        /\ Len(result.value.pubKey) = PubKeyLen
        /\ IsHexText(result.value.pubKey)
        /\ Len(result.value.ethAddr) = EthAddrLen
        /\ IsHexText(result.value.ethAddr)
        /\ verifyRevAddr(result.value.revAddr)

(* C8: in every record a public operation returns, the hex fields present  *)
(* (privKey, pubKey, ethAddr) are lowercase hex without a 0x prefix.       *)
C8_HexFieldsCanonical ==
    (pc = "done" /\ op \in RecordOps /\ IsValue(result)) =>
        \A f \in HexFields \cap DOMAIN result.value :
            IsLowerHexText(result.value[f])

(* C9, as the code has it: parseRevAddress attempts the private key, the   *)
(* public key, the network address and then verifyRevAddr, in that order   *)
(* and whatever the earlier attempts gave, and chooses the result only     *)
(* after the four; when the private-key attempt raises, the call raises    *)
(* with that attempt alone made.                                           *)
C9_AttemptsInSourceOrder ==
    Done("parseRevAddress") =>
        IF IsRaised(result)
        THEN trace = <<"getAddrFromPrivateKey">>
        ELSE trace = <<"getAddrFromPrivateKey", "getAddrFromPublicKey",
                       "getAddrFromEth", "verifyRevAddr">>

C9_AddressChosenAfterAllFour ==
    /\ Done("parseRevAddress")
    /\ IsValue(result)
    /\ DOMAIN result.value = {"revAddr"}
    /\ Len(trace) = 4
    /\ trace[4] = "verifyRevAddr"

(* C9, as the specification has it: verifyRevAddr is attempted first, then *)
(* the private key, the public key and the network address, all four on    *)
(* every call.                                                             *)
C9_AttemptsInPrecedenceOrder ==
    Done("parseRevAddress") =>
        trace = <<"verifyRevAddr", "getAddrFromPrivateKey",
                  "getAddrFromPublicKey", "getAddrFromEth">>

(* C10: parseRevAddress gives the same outcome for t, for "0x" followed by *)
(* t, and for either inside whitespace; the origin field holds the         *)
(* stripped, trimmed value and the returned address passes verifyRevAddr.  *)
C10_PrefixAndWhitespaceIgnored ==
    Done("parseRevAddress") =>
        \A t \in CoreBodies :
            text \in Wrappings(t) =>
                /\ result = parseRevAddress(t).result
                /\ IsValue(result) => verifyRevAddr(result.value.revAddr)

============================================================================
